---- MODULE Spec2Model ----
(***************************************************************************)
(* OpenAiFunctionBasedAnswerGenerator.get_answer: the escalation of one    *)
(* question through up to three chat-completion calls, with the chat       *)
(* history and the similarity-search context added to the prompt on the    *)
(* model's request.                                                        *)
(*                                                                         *)
(* A text is a sequence of string atoms, so that concatenation is \o and   *)
(* the empty string is << >>.  An optional value (Python None or a value)  *)
(* is a sequence of length at most one: << >> is None, <<v>> is v.         *)
(***************************************************************************)
EXTENDS Integers, Sequences, FiniteSets

(* ------------------------------ bounds --------------------------------- *)

\* longest stored chat history, in turns
MaxTurns == 2

\* number of get_answer invocations made on the orchestrator
MaxInvocations == 2

(* --------------------------- data and inputs --------------------------- *)

None == << >>

Some(v) == <<v>>

EmptyText == << >>

Questions == { <<"What did I ask before?">> }

\* rows of the chat-history store: chat.user_message, chat.assistant
HistoryTurns ==
    { [user_message |-> <<"Do cats purr?">>, assistant |-> <<"Yes.">>],
      [user_message |-> <<"Do they bark?">>, assistant |-> <<"No.">>] }

Histories == UNION { [1..n -> HistoryTurns] : n \in 0..MaxTurns }

\* what similarity_search gives back: a text, or nothing (falsy)
SearchResults == { EmptyText, <<"doc about cats">> }

FunctionNames == { "get_history", "get_context", "get_weather" }

ContentTexts == { EmptyText, <<"You asked about cats.">> }

\* the message of a completion: a plain answer carries a content text; a
\* function call carries a name and a content that may be absent
ModelMessages ==
    [content : {Some(t) : t \in ContentTexts}, function_call : {None}]
    \cup [content : {None} \cup {Some(t) : t \in ContentTexts},
          function_call : {Some([name |-> n, arguments |-> "{}"]) : n \in FunctionNames}]

\* the raw completion as the client returns it
ModelResponses == { [choices |-> <<[message |-> m]>>] : m \in ModelMessages }

Message(role, content) == [role |-> role, content |-> content]

VARIABLES
    question,            \* the question every invocation asks
    history,             \* the chat-history store of chat_id, chronological
    documents,           \* the similarity-search result for the question
    model,               \* the completions given so far: {[messages, response]}
    invocation,          \* number of get_answer invocations started
    pc,                  \* "idle", "history", "context", "model", "done", "error"
    attempt,             \* which call of get_answer is being prepared: 1, 2, 3
    useContext,          \* arguments of the running _construct_prompt
    useHistory,
    system_messages,     \* the list _construct_prompt is building
    formatted_response,  \* get_answer's local: None or the last OpenAiAnswer
    calls,               \* message lists handed to the completion client
    responses,           \* the formatted answers to those calls
    trace,               \* outbound operations of this invocation: [op, ok]
    result,              \* None, or the text get_answer returned
    runs                 \* finished invocations: [calls, outcome, result]

vars == <<question, history, documents, model, invocation, pc, attempt,
          useContext, useHistory, system_messages, formatted_response, calls,
          responses, trace, result, runs>>

inputs == <<question, history, documents>>

(* ------------------------------ helpers -------------------------------- *)

\* Python truthiness of an optional text: None and "" are falsy
Truthy(opt) == opt # None /\ opt[1] # EmptyText

OrEmptyAlways(opt) == EmptyText

\* `x or ""`
OrEmpty(opt) == IF Truthy(opt) THEN opt[1] ELSE EmptyText

\* format_answer: the first choice's message as an OpenAiAnswer
FormatAnswer(response) ==
    [content |-> response.choices[1].message.content,
     function_call |-> response.choices[1].message.function_call]

IsCallAnyName(fr, name) == fr.function_call # None

\* `formatted_response.function_call and function_call.name == name`
IsCall(fr, name) ==
    fr.function_call # None /\ fr.function_call[1].name = name

SystemIdentity ==
    Message("system", <<"Your name is Quivr. You are a second brain...">>)

HistoryMarker ==
    Message("system", <<"Previous messages are already in chat.">>)

SharedSystemMessages == system_messages \o <<SystemIdentity>>

\* the list _construct_prompt starts from
FreshSystemMessages == <<SystemIdentity>>

GetChatHistoryAssistantFirst(h) ==
    [i \in 1..(2 * Len(h)) |->
        IF i % 2 = 1
        THEN Message("assistant", h[(i + 1) \div 2].assistant)
        ELSE Message("user", h[i \div 2].user_message)]

\* _get_chat_history: every turn as a user message then an assistant message
GetChatHistory(h) ==
    [i \in 1..(2 * Len(h)) |->
        IF i % 2 = 1
        THEN Message("user", h[(i + 1) \div 2].user_message)
        ELSE Message("assistant", h[i \div 2].assistant)]

ContextMessageNoDefault(chat_context) ==
    Message("user", <<"Here is chat context: ">> \o chat_context)

\* the f-string of _construct_prompt
ContextMessage(chat_context) ==
    Message("user",
            <<"Here is chat context: ">>
            \o (IF chat_context # EmptyText THEN chat_context
                ELSE <<"No document found">>))

PromptStepContextFirst(after, uc, uh) ==
    CASE after = "begin"   -> IF uc THEN "context" ELSE IF uh THEN "history" ELSE "model"
      [] after = "context" -> IF uh THEN "history" ELSE "model"
      [] after = "history" -> "model"

\* the next outbound operation of _construct_prompt followed by the model
\* call, after the step `after` of it is done
PromptStep(after, uc, uh) ==
    CASE after = "begin"   -> IF uh THEN "history" ELSE IF uc THEN "context" ELSE "model"
      [] after = "history" -> IF uc THEN "context" ELSE "model"
      [] after = "context" -> "model"

Return == [again |-> FALSE, attempt |-> 0, useContext |-> FALSE, useHistory |-> FALSE]

Again(n, uc, uh) == [again |-> TRUE, attempt |-> n, useContext |-> uc, useHistory |-> uh]

EscalationLoop(n, fr) ==
    IF n = 1 /\ IsCall(fr, "get_history") THEN Again(2, FALSE, TRUE)
    ELSE IF IsCall(fr, "get_context") THEN Again(3, TRUE, TRUE)
    ELSE Return

EscalationUnguarded(n, fr) ==
    IF n = 1 /\ (fr.function_call = None \/ IsCall(fr, "get_history"))
    THEN Again(2, FALSE, TRUE)
    ELSE IF n \in {1, 2} /\ IsCall(fr, "get_context") THEN Again(3, TRUE, TRUE)
    ELSE Return

EscalationHistoryLoop(n, fr) ==
    IF n \in {1, 2} /\ IsCall(fr, "get_history") THEN Again(2, FALSE, TRUE)
    ELSE IF n \in {1, 2} /\ IsCall(fr, "get_context") THEN Again(3, TRUE, TRUE)
    ELSE Return

\* the two `if`s of get_answer, seen after the answer to call n: the first
\* call is followed by the get_history test and then the get_context test,
\* the second by the get_context test, the third by the return
Escalation(n, fr) ==
    IF n = 1 /\ IsCall(fr, "get_history") THEN Again(2, FALSE, TRUE)
    ELSE IF n \in {1, 2} /\ IsCall(fr, "get_context") THEN Again(3, TRUE, TRUE)
    ELSE Return

RaiseSwallowed(at) == at

\* an exception of a collaborator leaves get_answer: nothing catches it
Raise(at) == "error"

Done(op) == [op |-> op, ok |-> TRUE]

Raised(op) == [op |-> op, ok |-> FALSE]

Finished(outcome, cs, res) == [calls |-> cs, outcome |-> outcome, result |-> res]

(* ------------------------------- actions ------------------------------- *)

Init ==
    /\ question \in Questions
    /\ history \in Histories
    /\ documents \in SearchResults
    /\ model = {}
    /\ invocation = 0
    /\ pc = "idle"
    /\ attempt = 0
    /\ useContext = FALSE
    /\ useHistory = FALSE
    /\ system_messages = << >>
    /\ formatted_response = None
    /\ calls = << >>
    /\ responses = << >>
    /\ trace = << >>
    /\ result = None
    /\ runs = << >>

\* get_answer(question) is entered: fresh locals, _construct_prompt(question)
GetAnswer ==
    /\ pc \in {"idle", "done", "error"}
    /\ invocation < MaxInvocations
    /\ invocation' = invocation + 1
    /\ attempt' = 1
    /\ useContext' = FALSE
    /\ useHistory' = FALSE
    /\ system_messages' = FreshSystemMessages
    /\ pc' = PromptStep("begin", FALSE, FALSE)
    /\ formatted_response' = None
    /\ calls' = << >>
    /\ responses' = << >>
    /\ trace' = << >>
    /\ result' = None
    /\ UNCHANGED <<inputs, model, runs>>

\* an outbound operation raises
Fail(op) ==
    /\ trace' = Append(trace, Raised(op))
    /\ pc' = Raise(pc)
    /\ runs' = IF pc' = "error"
               THEN Append(runs, Finished("error", calls', None))
               ELSE runs
    /\ UNCHANGED <<inputs, model, invocation, attempt, useContext, useHistory,
                   system_messages, formatted_response, responses, result>>

\* _construct_prompt, `if useHistory`: the history store is read
ReadHistory ==
    /\ pc = "history"
    /\ trace' = Append(trace, Done("history_read"))
    /\ system_messages' =
            system_messages \o <<HistoryMarker>> \o GetChatHistory(history)
    /\ pc' = PromptStep("history", useContext, useHistory)
    /\ UNCHANGED <<inputs, model, invocation, attempt, useContext, useHistory,
                   formatted_response, calls, responses, result, runs>>

ReadHistoryFails ==
    /\ pc = "history"
    /\ calls' = calls
    /\ Fail("history_read")

\* _construct_prompt, `if useContext`: the similarity search is made
ReadContext ==
    /\ pc = "context"
    /\ trace' = Append(trace, Done("similarity_search"))
    /\ system_messages' = Append(system_messages, ContextMessage(documents))
    /\ pc' = PromptStep("context", useContext, useHistory)
    /\ UNCHANGED <<inputs, model, invocation, attempt, useContext, useHistory,
                   formatted_response, calls, responses, result, runs>>

ReadContextFails ==
    /\ pc = "context"
    /\ calls' = calls
    /\ Fail("similarity_search")

\* the prompt _construct_prompt returns
Prompt == Append(system_messages, Message("user", question))

\* _get_model_response answers; get_answer formats the answer and either
\* prepares the next call or returns
ModelCall ==
    /\ pc = "model"
    /\ \E r \in ModelResponses :
        \* the model answers identical message lists identically
        /\ \A m \in model : m.messages = Prompt => m.response = r
        /\ model' = model \cup {[messages |-> Prompt, response |-> r]}
        /\ LET fr == FormatAnswer(r)
               e == Escalation(attempt, fr)
           IN  /\ formatted_response' = Some(fr)
               /\ calls' = Append(calls, Prompt)
               /\ responses' = Append(responses, fr)
               /\ trace' = Append(trace, Done("model_call"))
               /\ IF e.again
                  THEN /\ attempt' = e.attempt
                       /\ useContext' = e.useContext
                       /\ useHistory' = e.useHistory
                       /\ system_messages' = FreshSystemMessages
                       /\ pc' = PromptStep("begin", e.useContext, e.useHistory)
                       /\ UNCHANGED <<result, runs>>
                  ELSE /\ pc' = "done"
                       /\ result' = Some(OrEmpty(fr.content))
                       /\ system_messages' = Prompt
                       /\ runs' = Append(runs, Finished("done", calls', result'))
                       /\ UNCHANGED <<attempt, useContext, useHistory>>
    /\ UNCHANGED <<inputs, invocation>>

ModelCallFails ==
    /\ pc = "model"
    /\ calls' = Append(calls, Prompt)
    /\ Fail("model_call")

Next ==
    \/ GetAnswer
    \/ ReadHistory
    \/ ReadHistoryFails
    \/ ReadContext
    \/ ReadContextFails
    \/ ModelCall
    \/ ModelCallFails

Spec == Init /\ [][Next]_vars

(* ------------------------- observations for claims --------------------- *)

Count(op) == Cardinality({i \in 1..Len(trace) : trace[i].op = op})

Returned == pc = "done"

FirstNames(name) ==
    /\ responses # << >>
    /\ responses[1].function_call # None
    /\ responses[1].function_call[1].name = name

Names(i, name) ==
    /\ i \in 1..Len(responses)
    /\ responses[i].function_call # None
    /\ responses[i].function_call[1].name = name

\* the stored turns are in msgs, in the stored order: turn i's user message
\* immediately followed by turn i's assistant message, after the two system
\* messages that open a prompt with history
HistoryFlattenedIn(msgs) ==
    /\ Len(msgs) >= 2 + 2 * Len(history)
    /\ msgs[2].role = "system"
    /\ \A i \in 1..Len(history) :
        /\ msgs[2 * i + 1] = [role |-> "user", content |-> history[i].user_message]
        /\ msgs[2 * i + 2] = [role |-> "assistant", content |-> history[i].assistant]

\* msgs holds a context message before the question; with nothing found it
\* carries the marker
ContextIn(msgs) ==
    \E k \in 1..(Len(msgs) - 1) :
        /\ msgs[k].role = "user"
        /\ Len(msgs[k].content) >= 2
        /\ msgs[k].content[1] = "Here is chat context: "
        /\ documents = EmptyText =>
              \E j \in 2..Len(msgs[k].content) :
                  msgs[k].content[j] = "No document found"
        /\ documents # EmptyText =>
              msgs[k].content = <<"Here is chat context: ">> \o documents

ContentOrEmpty(fr) == IF fr.content = None THEN EmptyText ELSE fr.content[1]

(* -------------------------------- claims ------------------------------- *)

\* C1: whatever the model answers, one invocation of get_answer issues at
\* most three model calls, has issued at least one when it returns, and has
\* returned once the third call is answered.
C1_CallsBetweenOneAndThree ==
    /\ Len(calls) <= 3
    /\ Count("model_call") <= 3
    /\ Returned => Len(calls) >= 1 /\ Len(responses) = Len(calls)
    /\ Len(responses) = 3 => Returned
    /\ \A i \in 1..Len(runs) :
          runs[i].outcome = "done" => Len(runs[i].calls) \in 1..3

C1_Witness ==
    /\ Returned
    /\ Len(calls) = 3
    /\ Names(3, "get_context")

\* C2: when the first answer carries no function call, get_answer returns its
\* content verbatim after that one model call, and reads neither the history
\* store nor the vector store.
C2_DirectAnswer ==
    (responses # << >> /\ responses[1].function_call = None) =>
        /\ Returned
        /\ result = responses[1].content
        /\ Len(calls) = 1
        /\ trace = <<[op |-> "model_call", ok |-> TRUE]>>

C2_Witness ==
    /\ Returned
    /\ responses[1].function_call = None
    /\ result = Some(<<"You asked about cats.">>)

\* C3 as stated: when the first answer names get_history, exactly two model
\* calls occur, and the second call's messages hold the stored turns in
\* chronological order, user message then assistant message.
C3_ExactlyTwoCalls ==
    (Returned /\ FirstNames("get_history")) =>
        /\ Len(calls) = 2
        /\ HistoryFlattenedIn(calls[2])

\* C3 amended: when the first answer names get_history, the second call's
\* messages hold the stored turns in chronological order, user message then
\* assistant message; get_answer returns after two model calls, unless the
\* second answer names get_context, and then after three.
C3_TwoCallsUnlessContext ==
    /\ (FirstNames("get_history") /\ Len(calls) >= 2) =>
          HistoryFlattenedIn(calls[2])
    /\ (Returned /\ FirstNames("get_history")) =>
          /\ Len(calls) \in {2, 3}
          /\ Len(calls) = 3 <=> Names(2, "get_context")

C3_Witness ==
    /\ Returned
    /\ FirstNames("get_history")
    /\ Len(calls) = 2
    /\ Len(history) = 2
    /\ history[1] # history[2]

\* C4: when the first answer, or the answer to the second call, names
\* get_context, the last model call's messages hold the flattened history and
\* a context message, which carries "No document found" when the similarity
\* search found nothing.
C4_FinalCallHasHistoryAndContext ==
    (Returned /\ (Names(1, "get_context") \/ Names(2, "get_context"))) =>
        /\ HistoryFlattenedIn(calls[Len(calls)])
        /\ ContextIn(calls[Len(calls)])

C4_Witness ==
    /\ Returned
    /\ FirstNames("get_history")
    /\ Names(2, "get_context")
    /\ Len(calls) = 3
    /\ documents = EmptyText
    /\ Len(history) = 2

\* C5 as stated: one invocation reads the chat-history store at most once.
C5_AtMostOneHistoryRead == Count("history_read") <= 1

\* C5 amended: one invocation reads the chat-history store at most twice,
\* never twice for one prompt; it has read it twice when it returns exactly
\* when the first answer named get_history and the second get_context.
C5_AtMostTwoHistoryReads ==
    /\ Count("history_read") <= 2
    /\ \A i \in 1..(Len(trace) - 1) :
          ~(trace[i].op = "history_read" /\ trace[i + 1].op = "history_read")
    /\ Returned =>
          (Count("history_read") = 2
              <=> (FirstNames("get_history") /\ Names(2, "get_context")))

C5_Witness ==
    /\ Returned
    /\ Count("history_read") = 2
    /\ FirstNames("get_history")
    /\ Names(2, "get_context")

\* C6: when the first answer is a function call named neither get_history
\* nor get_context, there is one model call, no read of either store, and
\* get_answer returns the first answer's content, or "" when it has none.
C6_UnknownFunctionIgnored ==
    (/\ responses # << >>
     /\ responses[1].function_call # None
     /\ responses[1].function_call[1].name \notin {"get_history", "get_context"}) =>
        /\ Returned
        /\ Len(calls) = 1
        /\ trace = <<[op |-> "model_call", ok |-> TRUE]>>
        /\ result = Some(ContentOrEmpty(responses[1]))

C6_Witness ==
    /\ Returned
    /\ FirstNames("get_weather")
    /\ responses[1].content = None
    /\ result = Some(EmptyText)

\* C7: an operation that raises is the last operation of its invocation: the
\* invocation has ended in the error, with no answer, and nothing was
\* attempted after the failing operation.
C7_ErrorsPropagate ==
    \A i \in 1..Len(trace) :
        ~trace[i].ok =>
            /\ i = Len(trace)
            /\ pc = "error"
            /\ result = None
            /\ runs # << >>
            /\ runs[Len(runs)] = [calls |-> calls, outcome |-> "error", result |-> None]

C7_Witness ==
    /\ pc = "error"
    /\ Len(trace) = 5
    /\ trace[5] = [op |-> "similarity_search", ok |-> FALSE]

\* C8: two invocations that return, on the same question, history and search
\* result and against a model that answers identical message lists
\* identically, issued the same message lists in the same order and returned
\* the same answer.
C8_Deterministic ==
    \A i, j \in 1..Len(runs) :
        (runs[i].outcome = "done" /\ runs[j].outcome = "done") =>
            /\ runs[i].calls = runs[j].calls
            /\ runs[i].result = runs[j].result

C8_Witness ==
    /\ Len(runs) = 2
    /\ runs[1].outcome = "done"
    /\ runs[2].outcome = "done"
    /\ Len(runs[1].calls) = 3

\* C9: get_answer returns the content of the answer to the last model call
\* it issued, or "" when that answer has none, also when that answer is
\* itself a function call.
C9_ReturnsLastContent ==
    Returned =>
        /\ Len(responses) = Len(calls)
        /\ formatted_response = Some(responses[Len(responses)])
        /\ result = Some(ContentOrEmpty(responses[Len(responses)]))

C9_Witness ==
    /\ Returned
    /\ Len(responses) = 3
    /\ Names(3, "get_context")
    /\ result = Some(<<"You asked about cats.">>)

\* C10: the first operation is the model call on [system identity, question];
\* a similarity search happens only after an answer named get_context, at
\* most once, right after a history read, and is followed by exactly one
\* model call, the last of the invocation.
C10_LazyOrderedRetrieval ==
    /\ trace # << >> => trace[1].op = "model_call"
    /\ calls # << >> =>
          calls[1] = << [role |-> "system",
                         content |-> <<"Your name is Quivr. You are a second brain...">>],
                        [role |-> "user", content |-> question] >>
    /\ Count("similarity_search") <= 1
    /\ \A i \in 1..Len(trace) :
          trace[i].op = "similarity_search" =>
              /\ \E k \in 1..Len(responses) : Names(k, "get_context")
              /\ i > 1
              /\ trace[i - 1] = [op |-> "history_read", ok |-> TRUE]
              /\ i < Len(trace) => (i + 1 = Len(trace) /\ trace[i + 1].op = "model_call")
              /\ Returned => i + 1 = Len(trace)

C10_Witness ==
    /\ Returned
    /\ Len(trace) = 4
    /\ trace[3] = [op |-> "similarity_search", ok |-> TRUE]
    /\ FirstNames("get_context")


====
